---- MODULE Spec2Model ----
(***************************************************************************)
(* Per-paper chat-session cache and synchronisation protocol of            *)
(* src/assets/js/search.js: the session resolver                           *)
(* (checkExistingChatSession), the conversation opener (ask button click   *)
(* handler, initChatModal), the message exchange (sendQuestion), the       *)
(* summary request that replaces the shared paper context                  *)
(* (handleSummarize) and the on-screen session list                        *)
(* (updateChatSessionInSidebar).                                           *)
(*                                                                         *)
(* Every `await` on a network call is a suspension point: the code before  *)
(* it and the code after it are separate actions, and the actions of       *)
(* different handlers interleave.  Code between two suspension points runs *)
(* to completion on the single UI thread and is one action.  The Remote    *)
(* Authority is opaque: each of its answers is a nondeterministic choice   *)
(* made when the answer arrives.  `await response.json()` follows the      *)
(* fetch without reading any state in between and is part of the action    *)
(* that handles the answer; a body that does not parse is the network      *)
(* error outcome (both end in the catch block).  The PDF fields of the     *)
(* paper context (pdf_url, has_local_pdf, authors, abstract) take no part  *)
(* in the session protocol and are left out of the context records.        *)
(*                                                                         *)
(* Spec is the page on a device whose localStorage accepts every write;    *)
(* SpecStorage is the page on a device where setItem may throw;            *)
(* SpecCorrupt is the page on a device whose stored index may have been    *)
(* left damaged (a string JSON.parse rejects, or an entry with no session  *)
(* id) by something other than this code.                                  *)
(***************************************************************************)
EXTENDS Integers, Sequences, FiniteSets, TLC

\* ------------------------------------------------------------------ bounds
\* latest value of the clock
MaxClock == 2
\* sendQuestion invocations that may be running at once
MaxSends == 2
\* longest session list
MaxSidebar == 2
\* clicks on the ask, summarize and send buttons in one behaviour
MaxClicks == 3
\* One ask handler and one handleSummarize run at a time.

\* ---------------------------------------------------------------- universe
Papers == {"P1", "P2"}
SessionIds == {"S1", "S2"}
NoSession == "null"
NoTitle == "none"
UnknownPaper == "Unknown Paper"
NoTime == 0
Null == [id |-> "null", title |-> NoTitle, chat_session_id |-> NoSession]

\* data-paper-title of the result card the buttons belong to
PaperTitle(p) == IF p = "P1" THEN "T1" ELSE "T2"

\* what the user may have typed into the question box
Inputs == {<<>>, <<" ">>, <<"q">>, <<" ", "q", " ">>}

\* ------------------------------------------------------------------- state
VARIABLES
    loggedIn,        \* localStorage "token" is present
    storageFaulty,   \* localStorage.setItem may throw on this device
    chatSessions,    \* localStorage "chatSessions": set of [key, val] members
    currentPaperContext,  \* the closure variable of search.js:25
    windowContext,   \* window.currentPaperContext, a different variable
    resolver,        \* the ask-button handler and its checkExistingChatSession
    sends,           \* the running sendQuestion invocations
    summarize,       \* the running handleSummarize invocation
    sidebar,         \* .chat-history-list: data-session-id of the items, head first
    openedSession,   \* session handed to openChatSession by the ask handler
    historyRequest,  \* session whose history initChatModal asked loadChatHistory for
    outcome,         \* what the latest step of sendQuestion did and showed (observer)
    now,             \* the wall clock read by new Date()
    clicks           \* button clicks and key presses handled so far

vars == <<loggedIn, storageFaulty, chatSessions, currentPaperContext,
          windowContext, resolver, sends, summarize, sidebar, openedSession,
          historyRequest, outcome, now, clicks>>

\* ------------------------------------------------- JavaScript value helpers
\* String.prototype.trim on a sequence of characters
RECURSIVE TrimLeft(_)
TrimLeft(s) == IF s # <<>> /\ Head(s) = " " THEN TrimLeft(Tail(s)) ELSE s

RECURSIVE TrimRight(_)
TrimRight(s) ==
    IF s # <<>> /\ s[Len(s)] = " " THEN TrimRight(SubSeq(s, 1, Len(s) - 1)) ELSE s

\* variant of Trim: the input is taken as typed
TrimNothing(s) == s

Trim(s) == TrimRight(TrimLeft(s))

\* a member of the parsed chatSessions object is [key |-> paper id, val |-> entry]
Undefined ==
    [kind |-> "undefined", sessionId |-> NoSession, title |-> NoTitle,
     paperId |-> "null", lastUsed |-> NoTime]

\* legacy entry: the bare session id
Legacy(s) ==
    [kind |-> "legacy", sessionId |-> s, title |-> NoTitle,
     paperId |-> "null", lastUsed |-> NoTime]

\* entry that is an object with no sessionId
Malformed ==
    [kind |-> "record", sessionId |-> NoSession, title |-> NoTitle,
     paperId |-> "null", lastUsed |-> NoTime]

\* the stored string is not JSON: JSON.parse throws a SyntaxError on it
Unparsable == {[key |-> "SyntaxError", val |-> Undefined]}

\* savedSessions[k]
Get(obj, k) ==
    IF \E m \in obj : m.key = k
    THEN (CHOOSE m \in obj : m.key = k).val
    ELSE Undefined

\* delete savedSessions[k]
Delete(obj, k) == {m \in obj : m.key # k}

\* variant of Assign: the member is added and the old one is kept
AssignNoReplace(obj, k, v) == obj \cup {[key |-> k, val |-> v]}

\* savedSessions[k] = v : property assignment replaces the member of that key

Assign(obj, k, v) == {m \in obj : m.key # k} \cup {[key |-> k, val |-> v]}

\* the session id the two readers take from an entry: the sessionId of an
\* object that has one, the entry itself when it is a string or a number
SessionIdOf(entry) ==
    IF entry.kind = "record" /\ entry.sessionId # NoSession THEN entry.sessionId
    ELSE IF entry.kind = "legacy" THEN entry.sessionId
    ELSE NoSession

\* variant of ExchangeRecord: the session id the context had before the answer
ExchangeRecordOldId(sid, ctx, t) ==
    [kind |-> "record", sessionId |-> ctx.chat_session_id, title |-> ctx.title,
     paperId |-> ctx.id, lastUsed |-> t]

\* variant of ExchangeRecord: the client makes the session id up from the
\* paper id
ExchangeRecordMadeUp(sid, ctx, t) ==
    [kind |-> "record", sessionId |-> ctx.id, title |-> ctx.title,
     paperId |-> ctx.id, lastUsed |-> t]

\* the record sendQuestion stores after an exchange
ExchangeRecord(sid, ctx, t) ==
    [kind |-> "record", sessionId |-> sid, title |-> ctx.title,
     paperId |-> ctx.id, lastUsed |-> t]

\* variant of LookupRecord: the session id of the answer is not stored
LookupRecordNoId(sid, title, p) ==
    [kind |-> "record", sessionId |-> NoSession, title |-> title,
     paperId |-> p, lastUsed |-> NoTime]

\* the record checkExistingChatSession stores after a lookup by paper id
LookupRecord(sid, title, p) ==
    [kind |-> "record", sessionId |-> sid, title |-> title,
     paperId |-> p, lastUsed |-> NoTime]

\* localStorage.setItem("chatSessions", ...) : w is whether the write went through
WriteOutcomes == IF storageFaulty THEN {TRUE, FALSE} ELSE {TRUE}

SetItem(blob, w) == IF w THEN blob ELSE chatSessions

\* JSON.parse(localStorage.getItem("chatSessions") || "{}") returns
Parses(stored) == stored # Unparsable

\* ------------------------------------------------------ session list helpers
RECURSIVE RemoveFirst(_, _)
RemoveFirst(list, sid) ==
    IF list = <<>> THEN <<>>
    ELSE IF Head(list) = sid THEN Tail(list)
    ELSE <<Head(list)>> \o RemoveFirst(Tail(list), sid)

Occurs(list, sid) == \E i \in 1..Len(list) : list[i] = sid

CountOf(list, sid) == Cardinality({i \in 1..Len(list) : list[i] = sid})

\* window.addChatSessionToSidebar: a new item at the head of the list
addChatSessionToSidebar(list, sid) == <<sid>> \o list

\* variant of updateChatSessionInSidebar: the item stays where it is
updateNoMove(list, sid) == list

\* variant of updateChatSessionInSidebar: a session with no item gets one at
\* the head
updateOrCreate(list, sid) == <<sid>> \o RemoveFirst(list, sid)

\* updateChatSessionInSidebar: the first item of that session id, if there is
\* one, is taken out and put back before the first child

updateChatSessionInSidebar(list, sid) ==
    IF Occurs(list, sid) THEN <<sid>> \o RemoveFirst(list, sid) ELSE list

\* ------------------------------------------------------------ initial state
IdleResolver ==
    [pc |-> "idle", paper |-> "null", snap |-> {}, sid |-> NoSession,
     verify |-> "none", lookup |-> "none", evicted |-> FALSE,
     found |-> NoSession, result |-> NoSession, raised |-> FALSE]

IdleSend ==
    [pc |-> "idle", question |-> <<>>, paper_id |-> "null",
     session_id |-> NoSession]

IdleSummarize == [pc |-> "idle", paper |-> "null"]

\* step: "none", the guard's "empty" / "nocontext" / "accepted", or the
\* response status "ok" / "notok" / "neterr"; answer and failure are the
\* bubbles the step added to the chat container
NoOutcome ==
    [step |-> "none", sid |-> NoSession, is_new_session |-> FALSE,
     answer |-> FALSE, failure |-> FALSE]

GuardOutcome(step) == [NoOutcome EXCEPT !.step = step]

\* what an older version of the page may have left in the index: nothing, or
\* a legacy scalar under one paper (every other entry is written by the
\* actions below)
InitialBlobs ==
    {{}} \cup {{[key |-> p, val |-> Legacy(s)]} : p \in Papers, s \in SessionIds}

\* what something other than this code may have left there as well
DamagedBlobs ==
    {Unparsable} \cup {{[key |-> p, val |-> Malformed]} : p \in Papers}

\* the items the document's session list may hold when the script starts:
\* none, or those of two earlier sessions of the logged-in user
InitialSidebars == {<<>>, <<"S1", "S2">>}

InitCommon ==
    /\ loggedIn \in BOOLEAN
    /\ currentPaperContext = Null
    /\ windowContext = Null
    /\ resolver = IdleResolver
    /\ sends = [i \in 1..MaxSends |-> IdleSend]
    /\ summarize = IdleSummarize
    /\ sidebar \in IF loggedIn THEN InitialSidebars ELSE {<<>>}
    /\ openedSession = NoSession
    /\ historyRequest = NoSession
    /\ outcome = NoOutcome
    /\ now = 1
    /\ clicks = 0

Init == InitCommon /\ chatSessions \in InitialBlobs /\ storageFaulty = FALSE

InitStorage == InitCommon /\ chatSessions \in InitialBlobs /\ storageFaulty = TRUE

InitCorrupt ==
    /\ InitCommon
    /\ chatSessions \in InitialBlobs \cup DamagedBlobs
    /\ storageFaulty = FALSE

\* ------------------------------------------------- opening a conversation
\* variant of initChatModal: the history of the session found is not asked for
initChatModalNoHistory(p, stored) ==
    IF Parses(stored)
    THEN LET existingSessionId == SessionIdOf(Get(stored, p)) IN
         /\ windowContext' =
                [id |-> p, title |-> PaperTitle(p), chat_session_id |-> existingSessionId]
         /\ historyRequest' = NoSession
         /\ openedSession' = NoSession
    ELSE /\ historyRequest' = NoSession
         /\ openedSession' = NoSession
         /\ UNCHANGED windowContext

\* initChatModal: reads the index again and sets window.currentPaperContext;
\* when JSON.parse throws, the function ends there
initChatModal(p, stored) ==
    IF Parses(stored)
    THEN LET existingSessionId == SessionIdOf(Get(stored, p)) IN
         /\ windowContext' =
                [id |-> p, title |-> PaperTitle(p), chat_session_id |-> existingSessionId]
         /\ historyRequest' = IF existingSessionId # NoSession /\ loggedIn
                              THEN existingSessionId ELSE NoSession
         /\ openedSession' = NoSession
    ELSE /\ historyRequest' = NoSession
         /\ openedSession' = NoSession
         /\ UNCHANGED windowContext

\* openChatSession(existingSessionId) of the ask handler: the conversation view
\* of that session is opened
openChatSession(sid) ==
    /\ openedSession' = sid
    /\ historyRequest' = NoSession
    /\ UNCHANGED windowContext

\* the rest of the ask handler once checkExistingChatSession has returned
AskContinue(p, existingSessionId, stored) ==
    IF existingSessionId # NoSession
    THEN openChatSession(existingSessionId)
    ELSE initChatModal(p, stored)

\* the ask handler ends with the exception initChatModal threw
AskRaises(existingSessionId, stored) ==
    existingSessionId = NoSession /\ ~Parses(stored)

\* ask button of paper p clicked; checkExistingChatSession runs up to its
\* first network call, or throws at its JSON.parse
AskClick(p) ==
    /\ resolver.pc \in {"idle", "done", "hung"}
    /\ clicks < MaxClicks
    /\ clicks' = clicks + 1
    /\ IF ~loggedIn
       THEN /\ initChatModal(p, chatSessions)
            /\ resolver' = [IdleResolver EXCEPT
                               !.raised = AskRaises(NoSession, chatSessions)]
       ELSE IF ~Parses(chatSessions)
       THEN /\ resolver' = [IdleResolver EXCEPT !.pc = "done", !.paper = p,
                                                !.raised = TRUE]
            /\ openedSession' = NoSession
            /\ historyRequest' = NoSession
            /\ UNCHANGED windowContext
       ELSE LET sessionId == SessionIdOf(Get(chatSessions, p)) IN
            /\ resolver' = [IdleResolver EXCEPT
                               !.pc = IF sessionId # NoSession THEN "verify" ELSE "lookup",
                               !.paper = p, !.snap = chatSessions, !.sid = sessionId]
            /\ openedSession' = NoSession
            /\ historyRequest' = NoSession
            /\ UNCHANGED windowContext
    /\ UNCHANGED <<loggedIn, storageFaulty, chatSessions, currentPaperContext,
                   sends, summarize, sidebar, outcome, now>>

\* the verification or lookup request never gets an answer: the fetch has no
\* timeout and no abort signal, its promise stays pending and the ask handler
\* waiting on it never runs again (a later click starts another handler)
RequestHangs ==
    /\ resolver.pc \in {"verify", "lookup"}
    /\ resolver' = [resolver EXCEPT !.pc = "hung", !.snap = {}]
    /\ UNCHANGED <<loggedIn, storageFaulty, chatSessions, currentPaperContext,
                   windowContext, sends, summarize, sidebar, openedSession,
                   historyRequest, outcome, now, clicks>>

\* the answer to GET /api/ai/chat-sessions/{sessionId}
VerifyOutcomes == {"ok", "notok", "neterr"}

\* variant of VerifyResponse: a not-OK answer leaves the entry in the index
VerifyNoEvict(o, w) ==
    /\ resolver.pc = "verify"
    /\ IF o = "ok"
       THEN /\ resolver' = [resolver EXCEPT !.pc = "done", !.verify = o, !.snap = {},
                                            !.result = resolver.sid]
            /\ AskContinue(resolver.paper, resolver.sid, chatSessions)
            /\ UNCHANGED chatSessions
       ELSE /\ resolver' = [resolver EXCEPT !.pc = "lookup", !.verify = o]
            /\ UNCHANGED <<chatSessions, windowContext, historyRequest, openedSession>>
    /\ UNCHANGED <<loggedIn, storageFaulty, currentPaperContext,
                   sends, summarize, sidebar, outcome, now>>
    /\ UNCHANGED clicks

\* variant of VerifyResponse: an OK answer goes on to the lookup by paper id
VerifyNoReturn(o, w) ==
    /\ resolver.pc = "verify"
    /\ IF o = "notok"
       THEN LET savedSessions == Delete(resolver.snap, resolver.paper) IN
            /\ chatSessions' = SetItem(savedSessions, w)
            /\ resolver' = [resolver EXCEPT !.pc = "lookup", !.verify = o,
                                            !.snap = savedSessions, !.evicted = w]
       ELSE /\ resolver' = [resolver EXCEPT !.pc = "lookup", !.verify = o]
            /\ UNCHANGED chatSessions
    /\ UNCHANGED <<loggedIn, storageFaulty, currentPaperContext, windowContext,
                   historyRequest, openedSession, sends, summarize, sidebar,
                   outcome, now>>
    /\ UNCHANGED clicks

\* variant of VerifyResponse: a verification that got no answer ends the
\* resolution with the exception of the fetch
VerifyAbortOnError(o, w) ==
    /\ resolver.pc = "verify"
    /\ IF o = "ok"
       THEN /\ resolver' = [resolver EXCEPT !.pc = "done", !.verify = o, !.snap = {},
                                            !.result = resolver.sid]
            /\ AskContinue(resolver.paper, resolver.sid, chatSessions)
            /\ UNCHANGED chatSessions
       ELSE IF o = "notok"
       THEN LET savedSessions == Delete(resolver.snap, resolver.paper) IN
            /\ chatSessions' = SetItem(savedSessions, w)
            /\ resolver' = [resolver EXCEPT !.pc = "lookup", !.verify = o,
                                            !.snap = savedSessions, !.evicted = w]
            /\ UNCHANGED <<windowContext, historyRequest, openedSession>>
       ELSE /\ resolver' = [resolver EXCEPT !.pc = "done", !.verify = o, !.snap = {},
                                            !.raised = TRUE]
            /\ UNCHANGED <<chatSessions, windowContext, historyRequest, openedSession>>
    /\ UNCHANGED <<loggedIn, storageFaulty, currentPaperContext,
                   sends, summarize, sidebar, outcome, now>>
    /\ UNCHANGED clicks

\* variant of VerifyResponse: a verification that got no answer evicts the
\* entry as a not-OK answer does
VerifyEvictOnError(o, w) ==
    /\ resolver.pc = "verify"
    /\ IF o = "ok"
       THEN /\ resolver' = [resolver EXCEPT !.pc = "done", !.verify = o, !.snap = {},
                                            !.result = resolver.sid]
            /\ AskContinue(resolver.paper, resolver.sid, chatSessions)
            /\ UNCHANGED chatSessions
       ELSE LET savedSessions == Delete(resolver.snap, resolver.paper) IN
            /\ chatSessions' = SetItem(savedSessions, w)
            /\ resolver' = [resolver EXCEPT !.pc = "lookup", !.verify = o,
                                            !.snap = savedSessions,
                                            !.evicted = (w /\ o = "notok")]
            /\ UNCHANGED <<windowContext, historyRequest, openedSession>>
    /\ UNCHANGED <<loggedIn, storageFaulty, currentPaperContext,
                   sends, summarize, sidebar, outcome, now>>
    /\ UNCHANGED clicks

\* the code after the verification fetch: return the verified id to the ask
\* handler, or evict on a not-OK status, and go on to the lookup fetch
VerifyResponse(o, w) ==
    /\ resolver.pc = "verify"
    /\ IF o = "ok"
       THEN /\ resolver' = [resolver EXCEPT !.pc = "done", !.verify = o, !.snap = {},
                                            !.result = resolver.sid]
            /\ AskContinue(resolver.paper, resolver.sid, chatSessions)
            /\ UNCHANGED chatSessions
       ELSE IF o = "notok"
       THEN LET savedSessions == Delete(resolver.snap, resolver.paper) IN
            /\ chatSessions' = SetItem(savedSessions, w)
            /\ resolver' = [resolver EXCEPT !.pc = "lookup", !.verify = o,
                                            !.snap = savedSessions, !.evicted = w]
            /\ UNCHANGED <<windowContext, historyRequest, openedSession>>
       ELSE /\ resolver' = [resolver EXCEPT !.pc = "lookup", !.verify = o]
            /\ UNCHANGED <<chatSessions, windowContext, historyRequest, openedSession>>
    /\ UNCHANGED <<loggedIn, storageFaulty, currentPaperContext,
                   sends, summarize, sidebar, outcome, now>>
    /\ UNCHANGED clicks

\* the answer to GET /api/ai/paper-chat-session/{paperId}
LookupOutcomes == {"found", "nosid", "notok", "neterr"}

LookupTitles(p) == {PaperTitle(p), UnknownPaper}

\* the code after the lookup fetch, and the ask handler after the resolver
LookupResponse(o, sid, title, w) ==
    /\ resolver.pc = "lookup"
    /\ IF o = "found"
       THEN /\ sid # NoSession
            /\ LET savedSessions ==
                       Assign(resolver.snap, resolver.paper,
                              LookupRecord(sid, title, resolver.paper))
                   returned == IF w THEN sid ELSE NoSession
               IN  /\ chatSessions' = SetItem(savedSessions, w)
                   /\ resolver' = [resolver EXCEPT !.pc = "done", !.lookup = o,
                                                   !.snap = {}, !.found = sid,
                                                   !.result = returned,
                                                   !.raised = AskRaises(returned, chatSessions')]
                   /\ AskContinue(resolver.paper, returned, chatSessions')
       ELSE /\ sid = NoSession /\ title = UnknownPaper
            /\ resolver' = [resolver EXCEPT !.pc = "done", !.lookup = o, !.snap = {},
                                            !.raised = AskRaises(NoSession, chatSessions)]
            /\ UNCHANGED chatSessions
            /\ AskContinue(resolver.paper, NoSession, chatSessions)
    /\ UNCHANGED <<loggedIn, storageFaulty, currentPaperContext,
                   sends, summarize, sidebar, outcome, now>>
    /\ UNCHANGED clicks

\* --------------------------------------------------------- message exchange
FreeSlots == {i \in 1..MaxSends : sends[i].pc = "idle"}

\* sendQuestion up to its first await (ensureCsrfToken)
SendClick(input) ==
    LET question == Trim(input) IN
    /\ clicks < MaxClicks
    /\ clicks' = clicks + 1
    /\ IF question = <<>>
       THEN /\ outcome' = GuardOutcome("empty")
            /\ UNCHANGED sends
       ELSE IF currentPaperContext = Null
       THEN /\ outcome' = GuardOutcome("nocontext")
            /\ UNCHANGED sends
       ELSE /\ FreeSlots # {}
            /\ LET i == CHOOSE j \in FreeSlots : \A k \in FreeSlots : j <= k IN
               sends' = [sends EXCEPT ![i] = [IdleSend EXCEPT !.pc = "csrf",
                                                             !.question = question]]
            /\ outcome' = GuardOutcome("accepted")
    /\ UNCHANGED <<loggedIn, storageFaulty, chatSessions, currentPaperContext,
                   windowContext, resolver, summarize, sidebar, openedSession,
                   historyRequest, now>>

\* the request body is built from the context as it is after ensureCsrfToken
SendRequest(i) ==
    /\ sends[i].pc = "csrf"
    /\ sends' = [sends EXCEPT ![i].pc = "fetch",
                              ![i].paper_id = currentPaperContext.id,
                              ![i].session_id = currentPaperContext.chat_session_id]
    /\ UNCHANGED <<loggedIn, storageFaulty, chatSessions, currentPaperContext,
                   windowContext, resolver, summarize, sidebar, openedSession,
                   historyRequest, outcome, now>>
    /\ UNCHANGED clicks

\* the answer to POST /api/ai/question
SendOutcomes == {"ok", "notok", "neterr"}

\* variant of SidebarAfter: the list is updated for a guest as well
SidebarAfterAnyUser(sid, isNew) ==
    IF isNew THEN addChatSessionToSidebar(sidebar, sid)
    ELSE updateChatSessionInSidebar(sidebar, sid)

\* the session list after a stored answer
SidebarAfter(sid, isNew) ==
    IF isNew /\ loggedIn THEN addChatSessionToSidebar(sidebar, sid)
    ELSE IF loggedIn THEN updateChatSessionInSidebar(sidebar, sid)
    ELSE sidebar

\* new Date() of the exchange: the clock has not gone back since the last read
ClockReads == {t \in now..MaxClock : t <= now + 1}

\* variant of SendResponse: the answer's session id is stored without the
\* test that it is there
SendResponseNoIdTest(i, o, sid, isNew, w, t) ==
    /\ sends[i].pc = "fetch"
    /\ sends' = [sends EXCEPT ![i] = IdleSend]
    /\ IF o = "ok"
       THEN IF currentPaperContext # Null
            THEN LET savedSessions ==
                         Assign(chatSessions, currentPaperContext.id,
                                ExchangeRecord(sid, currentPaperContext, t))
                     stored == Parses(chatSessions) /\ w
                 IN
                 /\ isNew /\ loggedIn => Len(sidebar) < MaxSidebar
                 /\ currentPaperContext' =
                        [currentPaperContext EXCEPT !.chat_session_id = sid]
                 /\ chatSessions' = SetItem(savedSessions, stored)
                 /\ sidebar' = IF stored THEN SidebarAfter(sid, isNew) ELSE sidebar
                 /\ now' = t
                 /\ outcome' = [step |-> o, sid |-> sid, is_new_session |-> isNew,
                                answer |-> TRUE, failure |-> ~stored]
            ELSE /\ t = now
                 /\ outcome' = [step |-> o, sid |-> sid, is_new_session |-> isNew,
                                answer |-> TRUE, failure |-> FALSE]
                 /\ UNCHANGED <<currentPaperContext, chatSessions, sidebar, now>>
       ELSE /\ sid = NoSession /\ ~isNew /\ t = now
            /\ outcome' = [step |-> o, sid |-> NoSession, is_new_session |-> FALSE,
                           answer |-> FALSE, failure |-> TRUE]
            /\ UNCHANGED <<currentPaperContext, chatSessions, sidebar, now>>
    /\ UNCHANGED <<loggedIn, storageFaulty, windowContext, resolver, summarize,
                   openedSession, historyRequest>>
    /\ UNCHANGED clicks

\* the code after the question fetch: a JSON.parse or a write that throws
\* after the context was updated lands in the catch block, which shows the
\* failure message
SendResponse(i, o, sid, isNew, w, t) ==
    /\ sends[i].pc = "fetch"
    /\ sends' = [sends EXCEPT ![i] = IdleSend]
    /\ IF o = "ok"
       THEN IF sid # NoSession /\ currentPaperContext # Null
            THEN LET savedSessions ==
                         Assign(chatSessions, currentPaperContext.id,
                                ExchangeRecord(sid, currentPaperContext, t))
                     stored == Parses(chatSessions) /\ w
                 IN
                 /\ isNew /\ loggedIn => Len(sidebar) < MaxSidebar
                 /\ currentPaperContext' =
                        [currentPaperContext EXCEPT !.chat_session_id = sid]
                 /\ chatSessions' = SetItem(savedSessions, stored)
                 /\ sidebar' = IF stored THEN SidebarAfter(sid, isNew) ELSE sidebar
                 /\ now' = t
                 /\ outcome' = [step |-> o, sid |-> sid, is_new_session |-> isNew,
                                answer |-> TRUE, failure |-> ~stored]
            ELSE /\ t = now
                 /\ outcome' = [step |-> o, sid |-> sid, is_new_session |-> isNew,
                                answer |-> TRUE, failure |-> FALSE]
                 /\ UNCHANGED <<currentPaperContext, chatSessions, sidebar, now>>
       ELSE /\ sid = NoSession /\ ~isNew /\ t = now
            /\ outcome' = [step |-> o, sid |-> NoSession, is_new_session |-> FALSE,
                           answer |-> FALSE, failure |-> TRUE]
            /\ UNCHANGED <<currentPaperContext, chatSessions, sidebar, now>>
    /\ UNCHANGED <<loggedIn, storageFaulty, windowContext, resolver, summarize,
                   openedSession, historyRequest>>
    /\ UNCHANGED clicks

\* ----------------------------------------------------------- summary request
\* summarize button of paper p clicked; handleSummarize runs up to its fetch
SummarizeClick(p) ==
    /\ summarize.pc = "idle"
    /\ clicks < MaxClicks
    /\ clicks' = clicks + 1
    /\ summarize' = [pc |-> "fetch", paper |-> p]
    /\ UNCHANGED <<loggedIn, storageFaulty, chatSessions, currentPaperContext,
                   windowContext, resolver, sends, sidebar, openedSession,
                   historyRequest, outcome, now>>

\* the answer to POST /api/ai/summarize
SummarizeResponse(ok) ==
    /\ summarize.pc = "fetch"
    /\ summarize' = IdleSummarize
    /\ currentPaperContext' =
           IF ok /\ (currentPaperContext = Null \/ currentPaperContext.id # summarize.paper)
           THEN [id |-> summarize.paper, title |-> PaperTitle(summarize.paper),
                 chat_session_id |-> NoSession]
           ELSE currentPaperContext
    /\ UNCHANGED <<loggedIn, storageFaulty, chatSessions, windowContext, resolver,
                   sends, sidebar, openedSession, historyRequest, outcome, now>>
    /\ UNCHANGED clicks

\* ----------------------------------------------------------- specifications
Next ==
    \/ \E p \in Papers : AskClick(p)
    \/ RequestHangs
    \/ \E o \in VerifyOutcomes, w \in WriteOutcomes : VerifyResponse(o, w)
    \/ \E o \in LookupOutcomes, sid \in SessionIds \cup {NoSession}, w \in WriteOutcomes :
           \E title \in LookupTitles(resolver.paper) : LookupResponse(o, sid, title, w)
    \/ \E input \in Inputs : SendClick(input)
    \/ \E i \in 1..MaxSends : SendRequest(i)
    \/ \E i \in 1..MaxSends, o \in SendOutcomes, sid \in SessionIds \cup {NoSession},
          isNew \in BOOLEAN, w \in WriteOutcomes, t \in ClockReads :
           SendResponse(i, o, sid, isNew, w, t)
    \/ \E p \in Papers : SummarizeClick(p)
    \/ \E ok \in BOOLEAN : SummarizeResponse(ok)

Spec == Init /\ [][Next]_vars

SpecStorage == InitStorage /\ [][Next]_vars

SpecCorrupt == InitCorrupt /\ [][Next]_vars

\* ------------------------------------------------------------------ claims
\* a step in which a sendQuestion invocation handled the answer to its request
ResponseStep == \E i \in 1..MaxSends : sends[i].pc = "fetch" /\ sends'[i].pc = "idle"

\* a step in which the answer was a success carrying a session id
StoredStep == ResponseStep /\ outcome'.step = "ok" /\ outcome'.sid # NoSession

\* the input is empty or whitespace only
IsBlank(input) == \A k \in 1..Len(input) : input[k] = " "

\* the ask handler has finished opening a conversation
Opened ==
    /\ resolver.pc \notin {"verify", "lookup"}
    /\ openedSession # NoSession \/ windowContext # Null

\* the paper and session of the conversation the ask handler opened last
OpenedPaper == IF openedSession # NoSession THEN resolver.paper ELSE windowContext.id

OpenedSessionId ==
    IF openedSession # NoSession THEN openedSession ELSE windowContext.chat_session_id

\* the conversation of paper p was opened by initChatModal with no session
OpenedFresh(p) ==
    /\ resolver.pc \notin {"verify", "lookup"}
    /\ openedSession = NoSession
    /\ windowContext.id = p
    /\ windowContext.chat_session_id = NoSession

\* C1: in a conversation opened for a paper with no cached and no remote
\* session (context with no session id) a non-empty message is sent to the
\* Remote Authority for that paper, and when the answer carries a new session
\* id the index holds paper -> that id and the session list has one new entry
\* at its head.
C1_FreshConversationFirstExchange ==
    [][/\ \A p \in Papers, input \in Inputs :
             (OpenedFresh(p) /\ ~IsBlank(input) /\ SendClick(input))
                 => outcome'.step = "accepted" /\ currentPaperContext.id = p
       /\ \A p \in Papers :
             (OpenedFresh(p) /\ StoredStep /\ outcome'.is_new_session)
                 => /\ SessionIdOf(Get(chatSessions', p)) = outcome'.sid
                    /\ sidebar' = <<outcome'.sid>> \o sidebar]_vars

\* C2: a message sent after a conversation was opened is sent with the paper
\* id and the session id of the context that opening produced, and is not
\* dropped for want of a context.
C2_ExchangeUsesOpenedContext ==
    [][\A input \in Inputs :
           (Opened /\ ~IsBlank(input) /\ SendClick(input))
               => /\ outcome'.step = "accepted"
                  /\ currentPaperContext.id = OpenedPaper
                  /\ currentPaperContext.chat_session_id = OpenedSessionId]_vars

\* C3: when verification of the cached session answers not-OK the entry of
\* that paper is gone from the persisted index at once, and the resolver
\* caches a session found by paper id only after that eviction.
C3_EvictBeforeCache ==
    [][/\ (resolver.pc = "verify" /\ resolver'.verify = "notok")
              => /\ Get(chatSessions', resolver.paper) = Undefined
                 /\ resolver'.pc = "lookup"
       /\ (resolver.pc = "lookup" /\ resolver.verify = "notok"
                                  /\ resolver'.lookup = "found")
              => resolver.evicted]_vars

C3_Witness ==
    /\ resolver.pc = "lookup"
    /\ resolver.verify = "notok"
    /\ resolver.sid # NoSession
    /\ Get(chatSessions, resolver.paper) = Undefined

\* C4: cached session expired on the server and another session found by
\* paper id: the resolution has evicted the cached one, stores the found one
\* under the paper and returns it.
C4_ExpiredThenFound ==
    [][(resolver.pc = "lookup" /\ resolver.verify = "notok"
                               /\ resolver'.lookup = "found")
           => /\ resolver.evicted
              /\ Get(resolver.snap, resolver.paper) = Undefined
              /\ SessionIdOf(Get(chatSessions', resolver.paper)) = resolver'.found
              /\ resolver'.result = resolver'.found
              /\ openedSession' = resolver'.found]_vars

C4_Witness ==
    /\ resolver.pc = "done"
    /\ resolver.verify = "notok"
    /\ resolver.lookup = "found"
    /\ resolver.found # resolver.sid
    /\ resolver.result = resolver.found
    /\ SessionIdOf(Get(chatSessions, resolver.paper)) = resolver.found

\* C5: when verification confirms the cached session the resolver returns
\* it at once: no lookup by paper id, no message sent (so no session
\* created) and the index untouched.
C5_VerifiedShortCircuit ==
    [][(resolver.pc = "verify" /\ resolver'.verify = "ok")
           => /\ resolver'.pc = "done"
              /\ resolver'.result = resolver.sid
              /\ resolver'.lookup = "none"
              /\ openedSession' = resolver.sid
              /\ chatSessions' = chatSessions
              /\ sends' = sends]_vars

C5_Witness ==
    /\ resolver.pc = "done"
    /\ resolver.verify = "ok"
    /\ resolver.sid # NoSession
    /\ resolver.result = resolver.sid
    /\ openedSession = resolver.sid

\* C6: when a successful answer with a session id has been handled, the
\* context's session id is the answer's and so is the session id of the
\* index entry under the context's paper id.
C6_ContextAndIndexAgree ==
    [][StoredStep
           => /\ currentPaperContext'.chat_session_id = outcome'.sid
              /\ SessionIdOf(Get(chatSessions', currentPaperContext'.id)) = outcome'.sid
              /\ Get(chatSessions', currentPaperContext'.id).paperId
                     = currentPaperContext'.id]_vars

C6_Witness ==
    /\ outcome.step = "ok"
    /\ outcome.sid # NoSession
    /\ currentPaperContext.chat_session_id = outcome.sid
    /\ SessionIdOf(Get(chatSessions, currentPaperContext.id)) = outcome.sid

\* C7: whenever sendQuestion shows its failure message, the context and the
\* index are as they were: no failure path changes the context but not the
\* index.
C7_FailureLeavesNoPartialState ==
    [][(ResponseStep /\ outcome'.failure)
           => /\ currentPaperContext' = currentPaperContext
              /\ chatSessions' = chatSessions]_vars

\* C8: sending an empty or whitespace-only input starts no request and
\* changes neither the context nor the index.
C8_BlankInputIgnored ==
    [][\A input \in Inputs :
           (IsBlank(input) /\ SendClick(input))
               => /\ sends' = sends
                  /\ currentPaperContext' = currentPaperContext
                  /\ chatSessions' = chatSessions]_vars

C8_Witness ==
    /\ outcome.step = "empty"
    /\ currentPaperContext # Null
    /\ \A i \in 1..MaxSends : sends[i].pc = "idle"

\* the session list after a stored answer, as the spec words it
ListAsSpecified ==
    /\ outcome'.is_new_session => sidebar' = <<outcome'.sid>> \o sidebar
    /\ (~outcome'.is_new_session /\ CountOf(sidebar, outcome'.sid) = 1)
           => /\ sidebar'[1] = outcome'.sid
              /\ CountOf(sidebar', outcome'.sid) = 1
              /\ Len(sidebar') = Len(sidebar)

C10_OneEntryPerPaper ==
    \A p \in Papers :
        /\ Cardinality({m \in chatSessions : m.key = p}) <= 1
        /\ Cardinality({m \in chatSessions : m.val.paperId = p}) <= 1

\* a resolution kept its cached entry (verification unreachable) and then
\* wrote the session found by paper id over it
C10_Witness ==
    /\ resolver.pc = "done"
    /\ resolver.sid # NoSession
    /\ resolver.verify = "neterr"
    /\ resolver.lookup = "found"
    /\ resolver.found # resolver.sid
    /\ SessionIdOf(Get(chatSessions, resolver.paper)) = resolver.found

\* lastUsed of the entry stored under paper p (NoTime when there is none)
LastUsedOf(obj, p) == Get(obj, p).lastUsed

\* C11: while an entry stays stored under a paper, its lastUsed does not go
\* down and does not become absent once set, whichever operation (exchange
\* or resolution) rewrites the index.
C11_LastUsedNeverDecreases ==
    [][\A p \in Papers :
           (LastUsedOf(chatSessions, p) # NoTime /\ Get(chatSessions', p) # Undefined)
               => LastUsedOf(chatSessions', p) >= LastUsedOf(chatSessions, p)]_vars

\* C12: a verification that got no answer leaves the index alone and goes on
\* to the lookup by paper id; a lookup that got no answer or a not-OK one
\* makes the resolver return none; in both cases nothing is raised to the ask
\* handler, nothing is shown, and after the lookup the handler goes on to
\* initChatModal for the paper.
C12_NetworkFailureFallsThrough ==
    [][/\ (resolver.pc = "verify" /\ resolver'.verify = "neterr")
              => /\ resolver'.pc = "lookup"
                 /\ ~resolver'.raised
                 /\ chatSessions' = chatSessions
                 /\ outcome' = outcome
       /\ (resolver.pc = "lookup" /\ resolver'.lookup \in {"neterr", "notok"})
              => /\ resolver'.pc = "done"
                 /\ resolver'.result = NoSession
                 /\ ~resolver'.raised
                 /\ outcome' = outcome
                 /\ windowContext'.id = resolver.paper]_vars

C12_Witness ==
    /\ resolver.pc = "done"
    /\ resolver.verify = "neterr"
    /\ resolver.lookup = "neterr"
    /\ resolver.result = NoSession
    /\ ~resolver.raised
    /\ windowContext.id = resolver.paper

\* C13: when the resolver returns none, the context the ask handler then
\* sets up for the paper has no session id, whatever the index still holds
\* under the paper.
C13_NoneMeansFreshContext ==
    [][(resolver.pc = "lookup" /\ resolver'.pc = "done"
                               /\ resolver'.result = NoSession)
           => /\ windowContext'.id = resolver.paper
              /\ windowContext'.chat_session_id = NoSession
              /\ historyRequest' = NoSession]_vars

\* the index has nothing usable for paper p: no entry, an entry with no
\* session id, or a stored string that is not JSON
NothingUsable(p) ==
    \/ ~Parses(chatSessions)
    \/ Get(chatSessions, p) \in {Undefined, Malformed}

\* C14: when the index has nothing usable for the paper, the ask handler's
\* reads of it fail for nobody: the resolver takes it as a miss and goes to
\* the lookup by paper id, the opener sets up a context with no session id,
\* and no exception ends the handler.
C14_IndexReadNeverFails ==
    [][\A p \in Papers :
           (NothingUsable(p) /\ AskClick(p))
               => /\ ~resolver'.raised
                  /\ loggedIn => /\ resolver'.pc = "lookup"
                                 /\ resolver'.sid = NoSession
                  /\ ~loggedIn => windowContext' =
                         [id |-> p, title |-> PaperTitle(p),
                          chat_session_id |-> NoSession]]_vars

\* C15: a write to the index that fails raises nothing and shows nothing: no
\* resolution ends with an exception, and every successful answer carrying a
\* session id ends with the answer shown, no failure message, and the
\* context's session id set to the answer's.
C15_FailedWriteIsSilent ==
    [][/\ ~resolver'.raised
       /\ StoredStep
              => /\ outcome'.answer
                 /\ ~outcome'.failure
                 /\ currentPaperContext'.chat_session_id = outcome'.sid]_vars

\* the context sendQuestion works on is that of paper p and has had an
\* exchange that set its session id
Active(p) ==
    /\ currentPaperContext.id = p
    /\ currentPaperContext.chat_session_id # NoSession

\* C16: a click on the ask button of a paper whose context is active starts
\* no resolution and leaves the context as it is.
C16_ActiveContextReused ==
    [][\A p \in Papers :
           (Active(p) /\ AskClick(p))
               => /\ resolver'.pc \notin {"verify", "lookup"}
                  /\ currentPaperContext' = currentPaperContext]_vars

\* the session ids of the entries of an index object
IdsIn(obj) == {SessionIdOf(m.val) : m \in obj} \ {NoSession}

\* every session id the page holds: in the stored index, in the two
\* contexts, and in the resolver's copy of the index and of the cached id
IdsHeld ==
    IdsIn(chatSessions) \cup IdsIn(resolver.snap)
        \cup ({currentPaperContext.chat_session_id, windowContext.chat_session_id,
               resolver.sid} \ {NoSession})

\* the session id carried by the answer handled in this step, if any
IdsAnswered ==
    {s \in SessionIds :
        \/ StoredStep /\ s = outcome'.sid
        \/ resolver.pc = "lookup" /\ resolver'.lookup = "found" /\ s = resolver'.found}

\* C17: a step adds to the session ids the page holds (index entries and
\* contexts) only an id carried by the answer of the Remote Authority it
\* handles (question or lookup by paper id); every other id held after a step
\* was held before it, so each id held was in the index at the start or was
\* returned by the Remote Authority.
C17_SessionIdsComeFromRemote ==
    [][\A s \in IdsHeld' : s \in IdsHeld \cup IdsAnswered]_vars

C17_Witness ==
    /\ resolver.pc = "done"
    /\ resolver.lookup = "found"
    /\ SessionIdOf(Get(chatSessions, resolver.paper)) = resolver.found
    /\ outcome.step = "ok"
    /\ outcome.sid # NoSession
    /\ currentPaperContext.id # resolver.paper
    /\ currentPaperContext.chat_session_id = outcome.sid
    /\ SessionIdOf(Get(chatSessions, currentPaperContext.id)) = outcome.sid

\* a step of the resolver that handles the answer to its verification or
\* lookup request
ResolverStep == resolver.pc \in {"verify", "lookup"} /\ resolver' # resolver

\* the entry of paper q was stored by an exchange after the running
\* resolution read the index: it is not what the resolver's copy holds
WrittenSinceRead(q) ==
    /\ Get(chatSessions, q) # Undefined
    /\ Get(chatSessions, q) # Get(resolver.snap, q)

\* C18: when an exchange has stored the entry of the resolver's paper while
\* a request of the resolution was outstanding, the late step of the resolver
\* leaves that entry and the context of the exchange as they are.
C18_LateResolverNotApplied ==
    [][(ResolverStep /\ WrittenSinceRead(resolver.paper))
           => /\ Get(chatSessions', resolver.paper) = Get(chatSessions, resolver.paper)
              /\ currentPaperContext' = currentPaperContext]_vars

\* C19: a write of the resolver for its paper leaves the entry an exchange
\* stored for another paper since the resolver's read as it is, and a write
\* of an exchange for its paper leaves the entries of the other papers as
\* they are.
C19_NoLostUpdate ==
    [][/\ ResolverStep
              => \A q \in Papers \ {resolver.paper} :
                     WrittenSinceRead(q) => Get(chatSessions', q) = Get(chatSessions, q)
       /\ StoredStep
              => \A q \in Papers \ {currentPaperContext.id} :
                     Get(chatSessions', q) = Get(chatSessions, q)]_vars

\* the sendQuestion invocations whose request is with the Remote Authority
InFlight == {i \in 1..MaxSends : sends[i].pc = "fetch"}

\* C20: at most one question request is in flight at a time, and no two
\* requests in flight carry a null session id for the same paper.
C20_OneSendInFlight ==
    /\ Cardinality(InFlight) <= 1
    /\ \A i, j \in InFlight :
           (i # j /\ sends[i].paper_id = sends[j].paper_id)
               => ~(sends[i].session_id = NoSession /\ sends[j].session_id = NoSession)

\* C21: no resolution is left waiting for good on a verification request
\* that gets no answer: the wait is bounded, the request is abandoned and the
\* resolver goes on to the lookup, so the ask handler is never stuck at the
\* await of its verification.
C21_ResolutionNeverStuck ==
    ~(resolver.pc = "hung" /\ resolver.sid # NoSession /\ resolver.verify = "none")

\* C22: a legacy entry (the bare session id) is read as that session id, and
\* when the resolution of its paper succeeds with it, the index then holds a
\* structured record with that session id under the paper.
C22_LegacyEntryBackfilled ==
    [][(/\ resolver.pc = "verify"
        /\ Get(resolver.snap, resolver.paper).kind = "legacy"
        /\ resolver'.verify = "ok")
           => /\ resolver.sid = Get(resolver.snap, resolver.paper).sessionId
              /\ resolver'.result = resolver.sid
              /\ Get(chatSessions', resolver.paper).kind = "record"
              /\ SessionIdOf(Get(chatSessions', resolver.paper)) = resolver.sid]_vars

\* the entry is a structured record of paper p with every field present
FullRecord(entry, p) ==
    /\ entry.kind = "record"
    /\ entry.sessionId # NoSession
    /\ entry.paperId = p
    /\ entry.title # NoTitle
    /\ entry.lastUsed # NoTime

\* C23: the entry stored by an exchange, and the entry stored by the
\* resolver after a lookup by paper id, is a structured record with session
\* id, paper id, title and lastUsed all present.
C23_WritesFullRecord ==
    [][/\ StoredStep
              => FullRecord(Get(chatSessions', currentPaperContext.id),
                            currentPaperContext.id)
       /\ (resolver.pc = "lookup" /\ resolver'.lookup = "found")
              => FullRecord(Get(chatSessions', resolver.paper), resolver.paper)]_vars

\* a step in which the ask handler ran initChatModal to its end
InitModalStep ==
    /\ Parses(chatSessions')
    /\ \/ ~loggedIn /\ \E p \in Papers : AskClick(p)
       \/ ResolverStep /\ resolver'.pc = "done" /\ resolver'.result = NoSession

\* a step in which the ask handler handed the resolved session to
\* openChatSession
OpenSessionStep ==
    ResolverStep /\ resolver'.pc = "done" /\ resolver'.result # NoSession

\* the conversation the step opened has its history asked for when it has a
\* session id
HistoryAskedFor ==
    /\ (InitModalStep /\ windowContext'.chat_session_id # NoSession)
           => historyRequest' = windowContext'.chat_session_id
    /\ OpenSessionStep => openedSession' = resolver'.result

C25_ListOrderedByRecency ==
    [][(StoredStep /\ loggedIn)
           => /\ sidebar' # <<>>
              /\ sidebar'[1] = outcome'.sid
              /\ Tail(sidebar') \in {sidebar, RemoveFirst(sidebar, outcome'.sid)}]_vars

\* C26: the session id of a successful answer is stored under the paper the
\* request was sent for; when the context has meanwhile become that of
\* another paper, the context and the index entry of that other paper are
\* left as they are.
C26_StoredUnderPaperSent ==
    [][\A i \in 1..MaxSends :
           (sends[i].pc = "fetch" /\ sends'[i].pc = "idle" /\ StoredStep)
               => /\ SessionIdOf(Get(chatSessions', sends[i].paper_id)) = outcome'.sid
                  /\ \A q \in Papers \ {sends[i].paper_id} :
                         Get(chatSessions', q) = Get(chatSessions, q)
                  /\ currentPaperContext.id # sends[i].paper_id
                         => currentPaperContext' = currentPaperContext]_vars

\* C27: the step that handles the verification answer removes the entry of
\* the resolver's paper when the status is not OK, and leaves the whole index
\* as it is when the answer is OK or the request failed with a network
\* error; the step that handles the lookup answer removes no entry of that
\* paper.
C27_EvictOnlyOnNotOk ==
    [][/\ (resolver.pc = "verify" /\ resolver'.verify = "notok")
              => Get(chatSessions', resolver.paper) = Undefined
       /\ (resolver.pc = "verify" /\ resolver'.verify \in {"ok", "neterr"})
              => chatSessions' = chatSessions
       /\ (resolver.pc = "lookup" /\ ResolverStep
                                  /\ Get(chatSessions, resolver.paper) # Undefined)
              => Get(chatSessions', resolver.paper) # Undefined]_vars

C27_Witness ==
    /\ resolver.pc = "lookup"
    /\ resolver.verify = "neterr"
    /\ resolver.sid # NoSession
    /\ SessionIdOf(Get(chatSessions, resolver.paper)) = resolver.sid

\* C28: for a user who is not logged in, a click on the ask button starts no
\* request of the resolver, yields no session and leaves the index as it is;
\* a successful answer with a session id is stored in the index under the
\* context's paper and leaves the session list as it is.
C28_GuestResolverAndList ==
    [][/\ \A p \in Papers :
             (~loggedIn /\ AskClick(p))
                 => /\ resolver'.pc \notin {"verify", "lookup"}
                    /\ resolver'.result = NoSession
                    /\ openedSession' = NoSession
                    /\ chatSessions' = chatSessions
       /\ (~loggedIn /\ StoredStep)
             => /\ SessionIdOf(Get(chatSessions', currentPaperContext.id)) = outcome'.sid
                /\ sidebar' = sidebar]_vars

C28_Witness ==
    /\ ~loggedIn
    /\ windowContext # Null
    /\ resolver.pc = "idle"
    /\ outcome.step = "ok"
    /\ outcome.is_new_session
    /\ SessionIdOf(Get(chatSessions, currentPaperContext.id)) = outcome.sid
    /\ sidebar = <<>>

C30_NoSessionIdNoUpdate ==
    [][(ResponseStep /\ outcome'.step = "ok" /\ outcome'.sid = NoSession)
           => /\ currentPaperContext' = currentPaperContext
              /\ chatSessions' = chatSessions
              /\ sidebar' = sidebar
              /\ outcome'.answer
              /\ ~outcome'.failure]_vars

C30_Witness ==
    /\ outcome.step = "ok"
    /\ outcome.sid = NoSession
    /\ outcome.answer
    /\ currentPaperContext.chat_session_id # NoSession
    /\ SessionIdOf(Get(chatSessions, currentPaperContext.id))
           = currentPaperContext.chat_session_id

====
